---------------------------- MODULE Spec2Model ----------------------------
(***************************************************************************)
(* A model of src/scoring/hpf_scoring.py: the HPFScoring class that loads  *)
(* the HPF factor matrices and the identifier dictionaries and serves      *)
(* companion-package recommendations (predict -> folding_in ->             *)
(* match_manifest / normalize_result / filter_recommendation).             *)
(*                                                                         *)
(* Representation.                                                         *)
(*  - A numpy array is a function over 0..n-1 (numpy indexes from 0); a    *)
(*    Python list is a sequence; a Python dict whose iteration order       *)
(*    matters is a sequence of entries; None and an empty dict are <<>>.   *)
(*  - A probability is a fixed-point integer, 1000 standing for 1.0.       *)
(*  - A method that can raise returns a record with an err field naming    *)
(*    the Python exception ("none" when it returns normally).              *)
(*  - numpy's argsort does not fix the order of equal scores, so every     *)
(*    method downstream of it yields a set of possible results.            *)
(***************************************************************************)
EXTENDS Integers, Sequences, FiniteSets, TLC

\* ------------------------------------------------------------------ bounds

\* Rows of the beta matrix, i.e. package ids are 0..MaxPackages-1.
MaxPackages == 3
\* Rows of the theta matrix; a manifest file holds at most this many entries,
\* keyed by ids in 0..MaxManifests (one id more than theta has rows).
MaxManifests == 2
\* The largest max_count / MAX_COMPANION_REC_COUNT tried.
MaxCount == 2

\* ------------------------------------------------------ program constants

\* Number of latent factors (src.config.K).
K == 2
\* The rate of each of the K entries of theta_dummy (a positive number that
\* depends only on the hyperparameters a, a_c, b_c and K).
DummyRate == 1
\* -1.0, the score normalize_result gives to a package of the input.
Sentinel == -1000
\* The x100 of "cooccurrence_probability".
Percent == 100

PackageIds == 0 .. (MaxPackages - 1)
ThetaRows == 0 .. (MaxManifests - 1)
ManifestIds == 0 .. MaxManifests

\* Package names the package dictionary file may hold, in the file's order,
\* and names no dictionary holds.
NameOrder == <<"a", "b", "c">>
Names == {NameOrder[i] : i \in 1 .. Len(NameOrder)}
UnknownNames == {"z"}

\* ----------------------------------------------------------------- Python

Min(x, y) == IF x <= y THEN x ELSE y
Max(x, y) == IF x >= y THEN x ELSE y

\* set(a_list)
ToSet(list) == {list[i] : i \in 1 .. Len(list)}

\* dict.get(key): the value, or None (<<>>) when key is no key of the dict.
DictGet(dict, key) == IF key \in DOMAIN dict THEN <<dict[key]>> ELSE <<>>

\* bool(x) of the result of a dict.get over integers: None and 0 are falsy.
Truthy(opt) == opt # <<>> /\ opt[1] # 0

\* str(n) of a manifest id as the JSON file's key, and int(s) of such a key
\* (or of the int -1, which int() leaves as it is).
KeyOf(n) == ToString(n)
PyInt(s) == CHOOSE n \in -1 .. MaxManifests : ToString(n) = s

\* A slice bound against a sequence of length n: a negative bound counts from
\* the end, and both ends are clamped to 0..n.
SliceBound(i, n) == IF i < 0 THEN Max(i + n, 0) ELSE Min(i, n)

\* a_list[start:stop]
PySlice(list, start, stop) ==
    SubSeq(list, SliceBound(start, Len(list)) + 1, SliceBound(stop, Len(list)))

\* ------------------------------------------------------------------ scores

RECURSIVE Pow(_, _)
Pow(b, e) == IF e = 0 THEN 1 ELSE b * Pow(b, e - 1)

RECURSIVE Fact(_)
Fact(n) == IF n = 0 THEN 1 ELSE n * Fact(n - 1)

\* exp(-rate) in fixed point, for the rates the matrices hold.
ExpNeg == [rate \in 0 .. 3 |-> CASE rate = 0 -> 1000 [] rate = 1 -> 368
                                 [] rate = 2 -> 135 [] rate = 3 -> 50]

\* Poisson(rate).prob(x) = exp(-rate) * rate^x / x!
PoissonProb(rate, x) == (ExpNeg[rate] * Pow(rate, x)) \div Fact(x)

\* Poisson(rates).prob(beta): broadcast over the rows of beta, one value per
\* package and factor.
PoissonProbMatrix(rates, betaM) ==
    [p \in DOMAIN betaM |-> [k \in 1 .. K |-> PoissonProb(rates[k], betaM[p][k])]]

RECURSIVE SumSeq(_)
SumSeq(s) == IF s = <<>> THEN 0 ELSE s[1] + SumSeq(Tail(s))

\* ndarray.mean() of one row
Mean(row) == SumSeq(row) \div Len(row)

\* Every ordering of the indices of an array.
Orders(S) ==
    {o \in [1 .. Cardinality(S) -> S] :
        \A i, j \in 1 .. Cardinality(S) : i # j => o[i] # o[j]}

\* ndarray.argsort(): the indices in ascending order of value; the order of
\* equal values is not fixed.
Argsort(result) ==
    {o \in Orders(DOMAIN result) :
        \A i \in 1 .. (Cardinality(DOMAIN result) - 1) :
            result[o[i]] <= result[o[i + 1]]}


\* ------------------------------------------------------- the model's files

\* The unknown-package thresholds tried, each a fraction <<numerator,
\* denominator>> of [0, 1], and the configurations (src.config).
Thresholds == {<<0, 1>>, <<1, 2>>, <<1, 1>>}
Configs ==
    [UNKNOWN_PACKAGES_THRESHOLD : Thresholds,
     MAX_COMPANION_REC_COUNT : 1 .. MaxCount]

\* The dense matrices sparse.load_npz(...).toarray() yields: theta holds one
\* row of K Poisson rates per manifest, beta one row of K counts per package.
ThetaFile == [m \in ThetaRows |-> [k \in 1 .. K |-> 1 + ((m + k) % 3)]]
BetaFile == [p \in PackageIds |-> [k \in 1 .. K |-> (p + k) % 3]]

\* The package dictionary files: every name with some id (not always
\* injective: the file is data, and nothing in the code checks it).
PackageFiles == [Names -> PackageIds]

\* The ascending list of a set of integers.
SortedList(S) ==
    CHOOSE s \in [1 .. Cardinality(S) -> S] :
        \A i, j \in 1 .. Cardinality(S) : i < j => s[i] < s[j]

\* The manifest dictionary files over the given package-id lists: up to
\* MaxManifests entries, keyed by the decimal strings of distinct manifest
\* ids (any of 0..MaxManifests, so not always contiguous), in ascending order
\* of id.
ManifestFiles(lists) ==
    UNION {
        {[i \in 1 .. Cardinality(ks) |->
             [key |-> KeyOf(SortedList(ks)[i]), ids |-> f[SortedList(ks)[i]]]] :
            f \in [ks -> lists]} :
        ks \in {x \in SUBSET ManifestIds : Cardinality(x) <= MaxManifests}}

\* The pairs of neighbouring ids.
PairLists == {<<i, i + 1>> : i \in 0 .. (MaxPackages - 2)}
\* Every set of ids as its ascending list, and one list that repeats an id.
AllLists == {SortedList(S) : S \in SUBSET PackageIds} \cup {<<1, 1>>}

\* The model of the spec's scenario: a->0, b->1, c->2 and one manifest {0,1}.
ScenarioPackages == [n \in Names |-> (CHOOSE i \in 1 .. Len(NameOrder) : NameOrder[i] = n) - 1]
ScenarioManifests == <<[key |-> KeyOf(0), ids |-> <<0, 1>>]>>
ScenarioConfig ==
    [UNKNOWN_PACKAGES_THRESHOLD |-> <<1, 2>>, MAX_COMPANION_REC_COUNT |-> MaxCount]

\* What the storage backend holds: the scenario with either dictionary
\* replaced by each file of its family.
Stores ==
    {[packages |-> d, manifests |-> ScenarioManifests] : d \in PackageFiles}
    \cup {[packages |-> ScenarioPackages, manifests |-> m] : m \in ManifestFiles(PairLists)}

\* --------------------------------------------------------------- the state

VARIABLES
    config,     \* src.config: UNKNOWN_PACKAGES_THRESHOLD, MAX_COMPANION_REC_COUNT
    hpf,        \* the HPFScoring object: its attributes
    status,     \* "new" | "ready" (__init__ returned) | "failed" (it raised)
    files,      \* the staging files that exist under /tmp
    out         \* the last call: [op, arg, err, ret]

vars == <<config, hpf, status, files, out>>

StagingFiles == {"/tmp/user_matrix.npz", "/tmp/item_matrix.npz"}

NoCall == [op |-> "none", arg |-> <<>>, err |-> "none", ret |-> <<>>]

\* __init__, up to the dispatch on the datastore: the attributes' first values.
NewObject(datastore) ==
    [datastore |-> datastore,
     package_id_dict |-> <<>>,
     id_package_dict |-> <<>>,
     beta |-> <<>>,
     theta |-> <<>>,
     manifest_id_dict |-> <<>>,
     manifests |-> 0,
     packages |-> 0,
     theta_dummy |-> [k \in 1 .. K |-> DummyRate],
     dummy_result |-> <<>>]

\* ----------------------------------------------------------------- loading

\* {x: n for n, x in package_id_dict.items()}: a later name replaces an
\* earlier one with the same id.
InverseDict(dict) ==
    [x \in {dict[n] : n \in DOMAIN dict} |->
        NameOrder[CHOOSE i \in 1 .. Len(NameOrder) :
            /\ NameOrder[i] \in DOMAIN dict /\ dict[NameOrder[i]] = x
            /\ \A j \in (i + 1) .. Len(NameOrder) :
                   NameOrder[j] \in DOMAIN dict => dict[NameOrder[j]] # x]]

\* load_jsons; failAt = "read_json" when read_json_file raises.
load_jsons(self, store, failAt) ==
    IF failAt = "read_json"
    THEN [self |-> self, err |-> "JsonError"]
    ELSE [self |-> [self EXCEPT
                      !.package_id_dict = store.packages,
                      !.id_package_dict = InverseDict(store.packages),
                      !.manifest_id_dict =
                          [i \in 1 .. Len(store.manifests) |->
                              [key |-> store.manifests[i].key,
                               deps |-> ToSet(store.manifests[i].ids)]]],
          err |-> "none"]

\* load_s3: download, decode and remove each matrix in turn, then load_jsons.
\* Returns the object, the staging files left behind and the exception.
load_s3(self, fs, store, failAt) ==
    IF failAt = "download_theta"
    THEN [self |-> self, files |-> fs, err |-> "DownloadError"]
    ELSE IF failAt = "decode_theta"
    THEN [self |-> self, files |-> fs \cup {"/tmp/user_matrix.npz"}, err |-> "DecodeError"]
    ELSE LET s1 == [self EXCEPT !.theta = ThetaFile]
             fs1 == (fs \cup {"/tmp/user_matrix.npz"}) \ {"/tmp/user_matrix.npz"}
         IN  IF failAt = "download_beta"
             THEN [self |-> s1, files |-> fs1, err |-> "DownloadError"]
             ELSE IF failAt = "decode_beta"
             THEN [self |-> s1, files |-> fs1 \cup {"/tmp/item_matrix.npz"},
                   err |-> "DecodeError"]
             ELSE LET s2 == [s1 EXCEPT !.beta = BetaFile]
                      fs2 == (fs1 \cup {"/tmp/item_matrix.npz"}) \ {"/tmp/item_matrix.npz"}
                      j == load_jsons(s2, store, failAt)
                  IN  [self |-> j.self, files |-> fs2, err |-> j.err]

\* load_local: the matrices are read in place, no staging file is made.
load_local(self, fs, store, failAt) ==
    IF failAt = "decode_theta"
    THEN [self |-> self, files |-> fs, err |-> "DecodeError"]
    ELSE LET s1 == [self EXCEPT !.theta = ThetaFile]
         IN  IF failAt = "decode_beta"
             THEN [self |-> s1, files |-> fs, err |-> "DecodeError"]
             ELSE LET s2 == [s1 EXCEPT !.beta = BetaFile]
                      j == load_jsons(s2, store, failAt)
                  IN  [self |-> j.self, files |-> fs, err |-> j.err]

FailPoints(datastore) ==
    IF datastore = "S3DataStore"
    THEN {"none", "download_theta", "decode_theta", "download_beta", "decode_beta",
          "read_json"}
    ELSE {"none", "decode_theta", "decode_beta", "read_json"}

\* HPFScoring(datastore): load, then the sizes and the fallback scores.
HPFScoring_init(datastore, fs, store, failAt) ==
    LET self == NewObject(datastore)
        l == IF datastore = "S3DataStore"
             THEN load_s3(self, fs, store, failAt)
             ELSE load_local(self, fs, store, failAt)
    IN  IF l.err # "none"
        THEN l
        ELSE [self |-> [l.self EXCEPT
                          !.manifests = Cardinality(DOMAIN l.self.theta),
                          !.packages = Cardinality(DOMAIN l.self.beta),
                          !.dummy_result =
                              PoissonProbMatrix(l.self.theta_dummy, l.self.beta)],
              files |-> l.files,
              err |-> "none"]

\* ----------------------------------------------------------------- scoring

\* match_manifest with "is contained in" in place of "equals".
match_manifest_subset(self, input_id_set) ==
    LET hits == {i \in 1 .. Len(self.manifest_id_dict) :
                    self.manifest_id_dict[i].deps \subseteq input_id_set}
    IN  IF hits = {}
        THEN ToString(-1)
        ELSE self.manifest_id_dict[CHOOSE i \in hits : \A j \in hits : i <= j].key

\* match_manifest: the key of the first entry of manifest_id_dict whose
\* dependency set equals the input set, else -1 (written "-1": folding_in
\* passes either through int()).
match_manifest(self, input_id_set) ==
    LET hits == {i \in 1 .. Len(self.manifest_id_dict) :
                    self.manifest_id_dict[i].deps = input_id_set}
    IN  IF hits = {}
        THEN ToString(-1)
        ELSE self.manifest_id_dict[CHOOSE i \in hits : \A j \in hits : i <= j].key

\* normalize_result with array_len left at None, i.e. self.packages.
normalize_result(self, result, input_id_set) ==
    [i \in 0 .. (self.packages - 1) |->
        IF i \in input_id_set THEN Sentinel ELSE Mean(result[i])]

\* filter_recommendation: the last max_count indices of the argsort, each
\* with its name; id_package_dict[package_id] raises KeyError for an id
\* without a name.
filter_recommendation(self, result, max_count) ==
    {LET highest_indices == PySlice(o, -max_count, Cardinality(DOMAIN result))
     IN  IF \E i \in 1 .. Len(highest_indices) :
                highest_indices[i] \notin DOMAIN self.id_package_dict
         THEN [self |-> self, err |-> "KeyError", ret |-> <<>>]
         ELSE [self |-> self, err |-> "none",
               ret |-> [i \in 1 .. Len(highest_indices) |->
                   [cooccurrence_probability |-> result[highest_indices[i]] * Percent,
                    package_name |-> self.id_package_dict[highest_indices[i]],
                    topic_list |-> <<>>]]] :
        o \in Argsort(result)}

\* folding_in without the copy of the fallback scores: the sentinel is written
\* into self.dummy_result itself.
folding_in_inplace(self, input_id_set) ==
    LET manifest_id == PyInt(match_manifest(self, input_id_set))
        marked == [self EXCEPT !.dummy_result =
                      [p \in DOMAIN self.dummy_result |->
                          IF p \in input_id_set
                          THEN [k \in 1 .. K |-> Sentinel]
                          ELSE self.dummy_result[p]]]
    IN  IF manifest_id = -1
        THEN {[self |-> marked, err |-> f.err, ret |-> f.ret] :
                 f \in filter_recommendation(self,
                          normalize_result(self, self.dummy_result, input_id_set),
                          config.MAX_COMPANION_REC_COUNT)}
        ELSE IF manifest_id \notin DOMAIN self.theta
        THEN {[self |-> self, err |-> "IndexError", ret |-> <<>>]}
        ELSE filter_recommendation(self,
                 normalize_result(self,
                     PoissonProbMatrix(self.theta[manifest_id], self.beta),
                     input_id_set),
                 config.MAX_COMPANION_REC_COUNT)

\* folding_in: the scores of the matched manifest's theta row, or a copy of
\* the fallback scores when match_manifest says -1; theta[manifest_id]
\* raises IndexError for an id that is no row of theta.
folding_in(self, input_id_set) ==
    LET manifest_id == PyInt(match_manifest(self, input_id_set))
    IN  IF manifest_id = -1
        THEN filter_recommendation(self,
                 normalize_result(self, self.dummy_result, input_id_set),
                 config.MAX_COMPANION_REC_COUNT)
        ELSE IF manifest_id \notin DOMAIN self.theta
        THEN {[self |-> self, err |-> "IndexError", ret |-> <<>>]}
        ELSE filter_recommendation(self,
                 normalize_result(self,
                     PoissonProbMatrix(self.theta[manifest_id], self.beta),
                     input_id_set),
                 config.MAX_COMPANION_REC_COUNT)

\* The names of the stack whose dictionary lookup is truthy.
ResolvedNames(self, stack) ==
    {n \in stack : Truthy(DictGet(self.package_id_dict, n))}

\* predict: the (companion_recommendation, package_topic_dict,
\* missing_packages) triple, or the exception raised.
predict(self, input_stack) ==
    LET stack == ToSet(input_stack)
        input_id_set == {self.package_id_dict[n] : n \in ResolvedNames(self, stack)}
        package_topic_dict == [n \in ResolvedNames(self, stack) |-> <<>>]
        missing_packages == stack \ ResolvedNames(self, stack)
        threshold == config.UNKNOWN_PACKAGES_THRESHOLD
        triple(rec) == [companion_recommendation |-> rec,
                        package_topic_dict |-> package_topic_dict,
                        missing_packages |-> missing_packages]
    IN  IF Cardinality(stack) = 0
        THEN {[self |-> self, err |-> "ZeroDivisionError", ret |-> triple(<<>>)]}
        ELSE IF Cardinality(missing_packages) * threshold[2]
                    < threshold[1] * Cardinality(stack)
        THEN {[self |-> f.self, err |-> f.err, ret |-> triple(f.ret)] :
                 f \in folding_in(self, input_id_set)}
        ELSE {[self |-> self, err |-> "none", ret |-> triple(<<>>)]}

\* ----------------------------------------------------------------- actions

\* The input stacks tried: every set of names as a list, and each name twice.
InputStacks ==
    LET all == Names \cup UnknownNames
        order == NameOrder \o <<"z">>
        listOf(S) == [i \in 1 .. Cardinality(S) |->
                         order[SortedList({j \in 1 .. Len(order) : order[j] \in S})[i]]]
    IN  {listOf(S) : S \in SUBSET all} \cup {<<n, n>> : n \in all}

Init ==
    /\ config \in Configs
    /\ hpf = NewObject("none")
    /\ status = "new"
    /\ files = {}
    /\ out = NoCall

\* HPFScoring(datastore) against what the storage backend holds.
Construct ==
    /\ status = "new"
    /\ \E datastore \in {"S3DataStore", "LocalDataStore"}, store \in Stores :
        \E failAt \in FailPoints(datastore) :
            LET r == HPFScoring_init(datastore, files, store, failAt)
            IN  /\ hpf' = r.self
                /\ files' = r.files
                /\ status' = IF r.err = "none" THEN "ready" ELSE "failed"
                /\ out' = [op |-> "__init__", arg |-> failAt, err |-> r.err, ret |-> <<>>]
    /\ UNCHANGED config

\* hpf.predict(input_stack), by a caller that holds no earlier result.
Predict ==
    /\ status = "ready"
    /\ out.op # "predict"
    /\ \E input_stack \in InputStacks :
        \E r \in predict(hpf, input_stack) :
            /\ hpf' = r.self
            /\ out' = [op |-> "predict", arg |-> input_stack, err |-> r.err, ret |-> r.ret]
    /\ UNCHANGED <<config, status, files>>

\* The caller drops the result of the last call.
Discard ==
    /\ out.op \in {"predict", "match_manifest", "filter_recommendation"}
    /\ out' = NoCall
    /\ UNCHANGED <<config, hpf, status, files>>

Next == Construct \/ Predict \/ Discard

Spec == Init /\ [][Next]_vars

\* ------------------------------------------------- direct calls of methods

\* The object a successful HPFScoring(datastore) leaves.
ReadyObject(datastore, store) == HPFScoring_init(datastore, {}, store, "none").self

\* A loaded scenario model whose manifest dictionary is any file over every
\* list of package ids.
InitMatch ==
    /\ config = ScenarioConfig
    /\ hpf \in {ReadyObject("LocalDataStore",
                    [packages |-> ScenarioPackages, manifests |-> m]) :
                m \in ManifestFiles(AllLists)}
    /\ status = "ready"
    /\ files = {}
    /\ out = NoCall

\* hpf.match_manifest(input_id_set)
CallMatchManifest ==
    /\ status = "ready"
    /\ out.op = "none"
    /\ \E input_id_set \in SUBSET PackageIds :
        out' = [op |-> "match_manifest", arg |-> input_id_set, err |-> "none",
                ret |-> match_manifest(hpf, input_id_set)]
    /\ UNCHANGED <<config, hpf, status, files>>

NextMatch == CallMatchManifest \/ Discard

SpecMatch == InitMatch /\ [][NextMatch]_vars

\* A loaded scenario model whose package dictionary is any file.
InitFilter ==
    /\ config = ScenarioConfig
    /\ hpf \in {ReadyObject("LocalDataStore",
                    [packages |-> d, manifests |-> ScenarioManifests]) :
                d \in PackageFiles}
    /\ status = "ready"
    /\ files = {}
    /\ out = NoCall

\* The score matrices folding_in can hand to normalize_result: the fallback
\* scores and the scores of each theta row.
RawResults(self) ==
    {self.dummy_result}
    \cup {PoissonProbMatrix(self.theta[m], self.beta) : m \in DOMAIN self.theta}

\* hpf.filter_recommendation(hpf.normalize_result(raw, excluded), max_count)
CallFilterRecommendation ==
    /\ status = "ready"
    /\ out.op = "none"
    /\ \E raw \in RawResults(hpf), excluded \in SUBSET PackageIds,
          max_count \in 0 .. MaxCount :
        LET result == normalize_result(hpf, raw, excluded)
        IN  \E r \in filter_recommendation(hpf, result, max_count) :
                out' = [op |-> "filter_recommendation",
                        arg |-> [result |-> result, max_count |-> max_count],
                        err |-> r.err, ret |-> r.ret]
    /\ UNCHANGED <<config, hpf, status, files>>

NextFilter == CallFilterRecommendation \/ Discard

SpecFilter == InitFilter /\ [][NextFilter]_vars

\* ------------------------------------------------------------------ claims

\* The loaded package dictionary gives no two names the same id (the data
\* model's bijection).
InjectiveDictionary ==
    \A m, n \in DOMAIN hpf.package_id_dict :
        hpf.package_id_dict[m] = hpf.package_id_dict[n] => m = n

\* What the last call was and what the claims read from it.
PredictCalled == status = "ready" /\ InjectiveDictionary /\ out.op = "predict"
PredictReturned == PredictCalled /\ out.err = "none"
Stack == ToSet(out.arg)
KnownNames == Stack \cap DOMAIN hpf.package_id_dict
UnknownOfStack == Stack \ DOMAIN hpf.package_id_dict
Recommended ==
    {out.ret.companion_recommendation[i].package_name :
        i \in 1 .. Len(out.ret.companion_recommendation)}
\* missing_ratio >= UNKNOWN_PACKAGES_THRESHOLD, over the names that are no keys
ThresholdBreached ==
    Cardinality(UnknownOfStack) * config.UNKNOWN_PACKAGES_THRESHOLD[2]
        >= config.UNKNOWN_PACKAGES_THRESHOLD[1] * Cardinality(Stack)
\* The id set predict hands to folding_in, and whether it gets there.
FoldedIds == {hpf.package_id_dict[n] : n \in ResolvedNames(hpf, Stack)}
FoldingInReached ==
    /\ PredictCalled
    /\ Stack # {}
    /\ Cardinality(Stack \ ResolvedNames(hpf, Stack)) * config.UNKNOWN_PACKAGES_THRESHOLD[2]
           < config.UNKNOWN_PACKAGES_THRESHOLD[1] * Cardinality(Stack)
\* The entries of manifest_id_dict whose dependency set is S.
EqualManifests(S) ==
    {i \in 1 .. Len(hpf.manifest_id_dict) : hpf.manifest_id_dict[i].deps = S}

\* C1: no recommendation predict returns names a package of the input stack
\* that is a key of package_id_dict.
C1_InputNeverRecommended ==
    PredictReturned => \A n \in KnownNames : n \notin Recommended

\* C2: whenever missing_ratio >= UNKNOWN_PACKAGES_THRESHOLD for a non-empty
\* input stack, predict returns no recommendation and a missing_packages
\* that is exactly the input names that are no keys of package_id_dict (and
\* so is non-empty whenever the threshold is above 0).
C2_BreachReturnsUnknownNames ==
    (PredictCalled /\ Stack # {} /\ ThresholdBreached) =>
        /\ out.err = "none"
        /\ out.ret.companion_recommendation = <<>>
        /\ out.ret.missing_packages = UnknownOfStack
        /\ config.UNKNOWN_PACKAGES_THRESHOLD[1] > 0 => out.ret.missing_packages # {}

\* C3: predict resolves every input name that is a key of package_id_dict
\* (whatever its id) and reports as missing exactly the input names that are
\* no keys; in the scenario model, predict(["a","b"]) reports nothing missing
\* and recommends c but neither a nor b.
C3_MissingAreTheUnknownNames ==
    PredictReturned =>
        /\ out.ret.missing_packages = UnknownOfStack
        /\ DOMAIN out.ret.package_topic_dict = KnownNames
        /\ (/\ hpf.package_id_dict = ScenarioPackages
            /\ [i \in 1 .. Len(hpf.manifest_id_dict) |-> hpf.manifest_id_dict[i].deps]
                   = <<{0, 1}>>
            /\ config.UNKNOWN_PACKAGES_THRESHOLD = <<1, 2>>
            /\ Stack = {"a", "b"})
           => (out.ret.missing_packages = {} /\ Recommended = {"c"})

\* C4: predict of an empty input stack fails with EmptyInputError, never with
\* a division by zero.
C4_EmptyInputError ==
    (PredictCalled /\ Stack = {}) => out.err = "EmptyInputError"

\* C5: filter_recommendation returns n entries with
\* min(max_count, packages_count - |excluded|) <= n <= max_count, excluded
\* being the ids that hold the sentinel.
C5_FilterCount ==
    (out.op = "filter_recommendation" /\ out.err = "none") =>
        LET excluded == {i \in DOMAIN out.arg.result : out.arg.result[i] = Sentinel}
        IN  /\ Len(out.ret) <= out.arg.max_count
            /\ Len(out.ret) >= Min(out.arg.max_count, hpf.packages - Cardinality(excluded))

\* C6: match_manifest returns the key of a manifest whose id set equals the
\* input set when there is one, and -1 exactly when there is none; the key of
\* a match never reads as -1, and a manifest that is a proper subset or
\* superset of the input is never returned.
C6_MatchIsSetEquality ==
    out.op = "match_manifest" =>
        /\ (PyInt(out.ret) = -1) <=> (EqualManifests(out.arg) = {})
        /\ EqualManifests(out.arg) # {} =>
               \E i \in EqualManifests(out.arg) : hpf.manifest_id_dict[i].key = out.ret
        /\ \A i \in 1 .. Len(hpf.manifest_id_dict) :
               hpf.manifest_id_dict[i].key = out.ret =>
                   hpf.manifest_id_dict[i].deps = out.arg

\* C6 witness: a manifest equal to the input is returned although an earlier
\* entry is a proper subset of the input.
C6_Witness ==
    /\ out.op = "match_manifest"
    /\ \E i, j \in 1 .. Len(hpf.manifest_id_dict) :
        /\ i < j
        /\ hpf.manifest_id_dict[i].deps # out.arg
        /\ hpf.manifest_id_dict[i].deps \subseteq out.arg
        /\ hpf.manifest_id_dict[j].deps = out.arg
        /\ hpf.manifest_id_dict[j].key = out.ret

\* C7: in every model that finishes loading, id_package_dict is exactly the
\* inverse of package_id_dict (a dictionary in which two names share an id
\* does not finish loading).
C7_InverseDictionary ==
    status = "ready" =>
        /\ \A n \in DOMAIN hpf.package_id_dict :
               /\ hpf.package_id_dict[n] \in DOMAIN hpf.id_package_dict
               /\ hpf.id_package_dict[hpf.package_id_dict[n]] = n
        /\ Cardinality(DOMAIN hpf.id_package_dict)
               = Cardinality(DOMAIN hpf.package_id_dict)

\* C8: when folding_in finds a manifest equal to the input id set, the row
\* it scores with is a row of theta (its index is in 0..manifests-1) also
\* when manifest ids are not contiguous, so every input that reaches
\* folding_in gets its scores.
C8_MatchedRowIsThetaRow ==
    FoldingInReached =>
        /\ EqualManifests(FoldedIds) # {} =>
               PyInt(match_manifest(hpf, FoldedIds)) \in 0 .. (hpf.manifests - 1)
        /\ out.err # "IndexError"

\* C9: no predict call changes the loaded model: theta, beta, the three
\* dictionaries, dummy_result, packages and manifests are after each call
\* what they were before it.
C9_PredictLeavesModel == [][status = "ready" => hpf' = hpf]_vars

\* C9 witness: predict has returned recommendations from the fallback scores
\* for an input that holds a package of the model.
C9_Witness ==
    /\ FoldingInReached
    /\ out.err = "none"
    /\ FoldedIds # {}
    /\ EqualManifests(FoldedIds) = {}
    /\ out.ret.companion_recommendation # <<>>

\* C10: when load_s3 has ended, by returning or by raising, no staging file
\* is left.
C10_StagingFilesRemoved ==
    (out.op = "__init__" /\ hpf.datastore = "S3DataStore") => files \cap StagingFiles = {}

=============================================================================
